---- MODULE Spec2Model ----
(***************************************************************************)
(* Model of the Gantt chart editor: the task store (DatabaseManager), the  *)
(* view refresh of MainWindow and the interactive chart                     *)
(* (GanttChartWidget: layout, dependency arrows, pointer-driven drags).     *)
(*                                                                          *)
(* Conventions                                                              *)
(*   - a datetime.date is the number of days since 2024-01-01 (day 0);      *)
(*     an ISO date string is the triple <<year, month, day>>;               *)
(*   - Python None is the empty sequence <<>> for optional values and the   *)
(*     id 0 for an absent parent (SQLite row ids start at 1);               *)
(*   - horizontal pixel coordinates are integers (pointer positions are     *)
(*     whole pixels, bar edges are left_margin + days * day_width);         *)
(*     vertical coordinates are kept doubled (y2 = 2 * y) because the row   *)
(*     pitch 50 * 1.35 = 67.5 is a half pixel; the width of a freshly drawn *)
(*     progress bar is kept in hundredths of a pixel (w100 = 100 * width).  *)
(***************************************************************************)
EXTENDS Integers, Sequences, FiniteSets, TLC

(***************************************************************************)
(* Bounds of the model                                                      *)
(***************************************************************************)
\* number of left presses explored in one behaviour
MaxGestures == 2
\* number of pointer-moves with the button held explored in one behaviour
MaxMoves == 3

\* number of tasks a project is grown to by the task dialog
MaxTasks == 4

\* number of dialog edits and deletions explored in one behaviour
MaxStoreOps == 2

(***************************************************************************)
(* Program constants                                                        *)
(***************************************************************************)
row_height == 50
left_margin == 20
top_margin == 70
resize_edge_margin == 10
\* padding of the date range, timedelta(days=3)
RangePad == 3
\* jitter threshold of mouseMoveEvent, abs(delta_x) > 3
JitterPx == 3

ViewModes == {"day", "week", "month"}

\* the week view is the widest
DayWidthOf_WeekWidest(mode) ==
    IF mode = "day" THEN 30 ELSE IF mode = "week" THEN 40 ELSE 10

\* day_width that set_view_mode assigns to a mode
DayWidthOf(mode) ==
    IF mode = "day" THEN 40 ELSE IF mode = "week" THEN 30 ELSE 10

None == <<>>
NoParent == 0

(***************************************************************************)
(* Generic helpers                                                          *)
(***************************************************************************)
Abs(n) == IF n < 0 THEN 0 - n ELSE n

Min(a, b) == IF a < b THEN a ELSE b

Max(a, b) == IF a > b THEN a ELSE b

SetMin(S) == CHOOSE m \in S : \A n \in S : m <= n

SetMax(S) == CHOOSE m \in S : \A n \in S : m >= n

Range(s) == {s[i] : i \in 1..Len(s)}

\* floor division for any sign of n (d > 0)
FloorDiv(n, d) == IF n >= 0 THEN n \div d ELSE 0 - ((0 - n + d - 1) \div d)

\* Python round(n / d) for integers n and d > 0: to nearest, ties to even.
\* n / d is a correctly rounded double; with |n| and d this small it is an
\* exact tie only when the rational n / d is one.
PyRound(n, d) ==
    LET q == FloorDiv(n, d)
        r == n - q * d
    IN  IF 2 * r < d THEN q
        ELSE IF 2 * r > d THEN q + 1
        ELSE IF q % 2 = 0 THEN q ELSE q + 1

\* Python int((w / W) * 100) for integers 0 <= w and W > 0, in doubles:
\* truncation of the quotient; the doubles 0.29, 0.57 and 0.58 times 100
\* fall just below 29, 57 and 58 and truncate to one less.
PyIntPercent(w, W) ==
    IF 100 * w \in {29 * W, 57 * W, 58 * W}
    THEN (100 * w) \div W - 1
    ELSE (100 * w) \div W

(***************************************************************************)
(* Calendar: str(date) and date.fromisoformat over December 2023 and 2024   *)
(***************************************************************************)
DaysInMonth2024 == <<31, 29, 31, 30, 31, 30, 31, 31, 30, 31, 30, 31>>

RECURSIVE DaysBeforeMonth(_)
DaysBeforeMonth(m) ==
    IF m = 1 THEN 0 ELSE DaysBeforeMonth(m - 1) + DaysInMonth2024[m - 1]

\* str(d) for a date d
DateToIso(n) ==
    IF n < 0 THEN <<2023, 12, 32 + n>>
    ELSE LET m == CHOOSE k \in 1..12 :
                      /\ DaysBeforeMonth(k) <= n
                      /\ n < DaysBeforeMonth(k) + DaysInMonth2024[k]
         IN  <<2024, m, n - DaysBeforeMonth(m) + 1>>

\* date.fromisoformat(s)
DateFromIso(s) ==
    IF s[1] = 2023 THEN s[3] - 32
    ELSE DaysBeforeMonth(s[2]) + s[3] - 1

(***************************************************************************)
(* State                                                                    *)
(***************************************************************************)
VARIABLES
    \* DatabaseManager: the tasks table (id -> row) and task_dependencies
    db_tasks, db_deps,
    \* MainWindow.current_tasks: the Task objects of the last refresh_view
    current_tasks,
    \* GanttChartWidget: tasks (ids of the Task objects handed to load_tasks),
    \* dependencies, view_mode, day_width, min_date, max_date
    tasks, dependencies, view_mode, day_width, min_date, max_date,
    \* the scene: task_bars (id -> bar rectangle), the progress items in the
    \* scene (id -> rectangle; the dict progress_bars is never read) and the
    \* dependency lines
    task_bars, progress_bars, arrows,
    \* the brush colour of each bar in the scene (id -> RGB)
    bar_colors,
    \* TaskTreeWidget: the ids of its top-level items, in order
    tree_items,
    \* drag state of the widget
    dragging_item, drag_start_pos, drag_mode, original_task_dates,
    original_progress, has_moved, cursor,
    \* the pointer: left button held
    pressed,
    \* signals emitted by the last handler, in order
    signals,
    \* record of the current gesture, kept until the next event after its
    \* release (observation only; last_x is the pointer's position)
    gesture,
    \* the unhandled exception a handler ended in (<<>> when none); the
    \* application is not followed further after one
    exception,
    \* exploration counters
    n_gestures, n_moves, n_ops

dbVars == <<db_tasks, db_deps>>

chartVars == <<current_tasks, tasks, dependencies, min_date, max_date,
               task_bars, progress_bars, arrows, bar_colors, tree_items>>

modeVars == <<view_mode, day_width>>

dragVars == <<dragging_item, drag_start_pos, drag_mode, original_task_dates,
              original_progress, has_moved>>

vars == <<db_tasks, db_deps, current_tasks, tasks, dependencies, view_mode,
          day_width, min_date, max_date, task_bars, progress_bars, arrows,
          bar_colors, tree_items, dragging_item, drag_start_pos, drag_mode, original_task_dates,
          original_progress, has_moved, cursor, pressed, signals,
          gesture, exception, n_gestures, n_moves, n_ops>>

(***************************************************************************)
(* Task model (models/task.py)                                              *)
(***************************************************************************)
\* date.fromisoformat accepts the value: a string (not NULL) that is a date
\* of the calendar
ValidIso(s) ==
    /\ s # None
    /\ s[2] \in 1..12
    /\ s[3] \in 1..DaysInMonth2024[s[2]]

\* Task.from_db_row raises on the row: date.fromisoformat of start_date or
\* end_date fails (TypeError on NULL, ValueError on a malformed string)
RowRaises(row) == ~ValidIso(row.start_date) \/ ~ValidIso(row.end_date)

\* Task.from_db_row, an optional baseline column: None when the value is
\* NULL or empty, else the parsed date (kept in a 1-tuple)
BaselineFromRow(value) ==
    IF value = None THEN None ELSE <<DateFromIso(value)>>

\* Task.from_db_row: the dates are parsed from their ISO strings
from_db_row(row) ==
    [id |-> row.id, parent_id |-> row.parent_id,
     start_date |-> DateFromIso(row.start_date),
     end_date |-> DateFromIso(row.end_date),
     progress |-> row.progress, is_milestone |-> row.is_milestone,
     sort_order |-> row.sort_order,
     baseline_start_date |-> BaselineFromRow(row.baseline_start_date),
     baseline_end_date |-> BaselineFromRow(row.baseline_end_date),
     color |-> row.color,
     children |-> <<>>]

\* Task.duration_days
duration_days(task) == (task.end_date - task.start_date) + 1

\* Task.has_baseline: both baseline dates are set
has_baseline(task) ==
    task.baseline_start_date # None /\ task.baseline_end_date # None

\* Task.start_variance_days
start_variance_days(task) ==
    IF ~has_baseline(task) THEN 0
    ELSE task.start_date - task.baseline_start_date[1]

\* Task.end_variance_days measured from the baseline start
end_variance_days_FromStart(task) ==
    IF ~has_baseline(task) THEN 0
    ELSE task.end_date - task.baseline_start_date[1]

\* Task.end_variance_days
end_variance_days(task) ==
    IF ~has_baseline(task) THEN 0
    ELSE task.end_date - task.baseline_end_date[1]

(***************************************************************************)
(* DatabaseManager (database/db_manager.py)                                 *)
(***************************************************************************)
RowBefore(a, b) ==
    \/ a.sort_order < b.sort_order
    \/ a.sort_order = b.sort_order /\ a.id < b.id

RECURSIVE SortRows(_)
SortRows(S) ==
    IF S = {} THEN <<>>
    ELSE LET first == CHOOSE a \in S : \A b \in S \ {a} : RowBefore(a, b)
         IN  <<first>> \o SortRows(S \ {first})

\* SELECT * FROM tasks WHERE project_id = ? ORDER BY sort_order, id
get_tasks_by_project(db) == SortRows({db[i] : i \in DOMAIN db})

\* SELECT td.* FROM task_dependencies td JOIN tasks t ON td.predecessor_id = t.id
get_all_dependencies(db, deps) ==
    {d \in deps : d.predecessor_id \in DOMAIN db}

\* create_task: INSERT of the dialog's fields; sort_order and the baseline
\* columns are not given and take the column defaults (0 and NULL)
create_task(db, task_id, parent_id, start_date, end_date, progress, is_milestone, color) ==
    [i \in DOMAIN db \cup {task_id} |->
        IF i = task_id
        THEN [id |-> task_id, parent_id |-> parent_id,
              start_date |-> start_date, end_date |-> end_date,
              progress |-> progress, is_milestone |-> is_milestone,
              sort_order |-> 0,
              baseline_start_date |-> None, baseline_end_date |-> None,
              color |-> color]
        ELSE db[i]]

\* update_task: the columns an UPDATE may set
allowed_fields ==
    {"name", "description", "start_date", "end_date", "progress",
     "is_milestone", "is_expanded", "parent_id", "sort_order", "color",
     "assignee"}

\* update_task(task_id, **kwargs): the keyword arguments that are allowed
\* fields are SET on the row WHERE id = task_id; nothing is executed when
\* none is allowed.  Columns the rows of the model do not carry (name,
\* description, is_expanded, color, assignee, updated_at) are left out.
update_task_NoFilter(db, task_id, kwargs) ==
    LET updates == DOMAIN kwargs
    IN  IF updates = {} \/ task_id \notin DOMAIN db
        THEN db
        ELSE LET row == db[task_id]
             IN  [db EXCEPT ![task_id] =
                     [f \in DOMAIN row |->
                         IF f \in updates THEN kwargs[f] ELSE row[f]]]

update_task(db, task_id, kwargs) ==
    LET updates == DOMAIN kwargs \cap allowed_fields
    IN  IF updates = {} \/ task_id \notin DOMAIN db
        THEN db
        ELSE LET row == db[task_id]
             IN  [db EXCEPT ![task_id] =
                     [f \in DOMAIN row |->
                         IF f \in updates THEN kwargs[f] ELSE row[f]]]

\* update_task(task_id, start_date=..., end_date=...)
update_task_dates(db, task_id, start_date, end_date) ==
    update_task(db, task_id,
                [start_date |-> start_date, end_date |-> end_date])

\* update_task(task_id, progress=...)
update_task_progress(db, task_id, progress) ==
    update_task(db, task_id, [progress |-> progress])

\* delete_task: DELETE FROM tasks WHERE id = ?  (one row; the statement
\* names no other row, and the store does not cascade)
delete_task(db, task_id) == [i \in DOMAIN db \ {task_id} |-> db[i]]

(***************************************************************************)
(* Hierarchy (MainWindow.refresh_view) and flattening                       *)
(***************************************************************************)
IdsOf(objs) == {objs[i].id : i \in 1..Len(objs)}

TaskById(objs, id) == objs[CHOOSE i \in 1..Len(objs) : objs[i].id = id]

\* the ids of a list of Task objects, in list order
IdSeq(objs) == [i \in 1..Len(objs) |-> objs[i].id]

\* the loop of refresh_view that fills the children lists: a task whose
\* parent_id is set and loaded is appended to that parent's children
BuildChildren(objs) ==
    [i \in 1..Len(objs) |->
        LET IsChild(t) == /\ t.parent_id # NoParent
                          /\ t.parent_id \in IdsOf(objs)
                          /\ t.parent_id = objs[i].id
        IN  [objs[i] EXCEPT !.children = IdSeq(SelectSeq(objs, IsChild))]]

\* root_tasks of refresh_view: only a task with parent_id None is a root
RootTasks(objs) ==
    LET IsRoot(t) == /\ ~(t.parent_id # NoParent /\ t.parent_id \in IdsOf(objs))
                     /\ t.parent_id = NoParent
    IN  IdSeq(SelectSeq(objs, IsRoot))

\* GanttChartWidget._flatten_tasks over a list of task ids
RECURSIVE _flatten_tasks(_, _)
_flatten_tasks(objs, ids) ==
    IF ids = <<>> THEN <<>>
    ELSE LET task == TaskById(objs, Head(ids))
         IN  <<task.id>>
             \o (IF task.children # <<>>
                 THEN _flatten_tasks(objs, task.children) ELSE <<>>)
             \o _flatten_tasks(objs, Tail(ids))

(***************************************************************************)
(* Layout (GanttChartWidget.calculate_date_range, draw_chart, ...)          *)
(***************************************************************************)
\* calculate_date_range: the dates of self.tasks, padded by three days
calculate_date_range(objs, ids) ==
    LET dates == UNION {{TaskById(objs, id).start_date,
                         TaskById(objs, id).end_date} : id \in Range(ids)}
    IN  [min_date |-> SetMin(dates) - RangePad,
         max_date |-> SetMax(dates) + RangePad]

\* task_rows of draw_chart: one row per entry of self.tasks, in list order
task_rows(ids) ==
    [id \in Range(ids) |-> (CHOOSE i \in 1..Len(ids) : ids[i] = id) - 1]

\* x of a date on the axis (draw_task_bar, start_x)
DateToX(d, mind, uw) == left_margin + (d - mind) * uw

\* draw_task_bar: the bar rectangle of a task in a row
\*   y = top_margin + row * row_height * 1.35 + 18, height = row_height - 10
draw_task_bar(task, row, mind, uw) ==
    [x  |-> DateToX(task.start_date, mind, uw),
     y2 |-> 2 * top_margin + (row * row_height * 27) \div 10 + 36,
     w  |-> duration_days(task) * uw,
     h  |-> row_height - 10]

\* QColor(name) of a colour name the colour dialog returns ('#rrggbb')
QColor(name) ==
    IF name = "#ff9800" THEN <<255, 152, 0>>
    ELSE IF name = "#4caf50" THEN <<76, 175, 80>>
    ELSE <<0, 0, 0>>

\* the milestone colour is taken before the custom colour
bar_color_MilestoneFirst(task) ==
    IF task.is_milestone THEN <<244, 67, 54>>
    ELSE IF task.color # None /\ task.color # <<"">>
    THEN QColor(task.color[1])
    ELSE IF task.progress = 100 THEN <<76, 175, 80>>
    ELSE IF task.progress > 0 THEN <<33, 150, 243>>
    ELSE <<158, 158, 158>>

\* draw_task_bar: the brush colour of the bar ('if task.color' takes the
\* colour when it is neither None nor empty; a colour name is kept in a
\* 1-tuple)
bar_color(task) ==
    IF task.color # None /\ task.color # <<"">> THEN QColor(task.color[1])
    ELSE IF task.is_milestone THEN <<244, 67, 54>>
    ELSE IF task.progress = 100 THEN <<76, 175, 80>>
    ELSE IF task.progress > 0 THEN <<33, 150, 243>>
    ELSE <<158, 158, 158>>

\* draw_task_bar: a progress item is drawn over the bar
HasProgressBar(task) == task.progress > 0 /\ ~task.is_milestone

\* draw_task_bar: the progress rectangle, width * (progress / 100)
draw_progress_bar(task, row, mind, uw) ==
    LET bar == draw_task_bar(task, row, mind, uw)
    IN  [x |-> bar.x, y2 |-> bar.y2, w100 |-> bar.w * task.progress,
         h |-> bar.h]

\* the line started at the predecessor bar's left edge
draw_dependency_arrow_FromLeft(predecessor_id, successor_id, bars) ==
    IF predecessor_id \notin DOMAIN bars \/ successor_id \notin DOMAIN bars
    THEN {}
    ELSE LET pred_bar == bars[predecessor_id]
             succ_bar == bars[successor_id]
         IN  {[predecessor_id |-> predecessor_id,
               successor_id |-> successor_id,
               x1 |-> pred_bar.x,
               y1 |-> pred_bar.y2 + pred_bar.h,
               x2 |-> succ_bar.x,
               y2 |-> succ_bar.y2 + succ_bar.h]}

\* draw_dependency_arrow: the line from the predecessor bar's right centre to
\* the successor bar's left centre (vertical coordinates doubled); nothing
\* when one of the bars is missing
draw_dependency_arrow(predecessor_id, successor_id, bars) ==
    IF predecessor_id \notin DOMAIN bars \/ successor_id \notin DOMAIN bars
    THEN {}
    ELSE LET pred_bar == bars[predecessor_id]
             succ_bar == bars[successor_id]
         IN  {[predecessor_id |-> predecessor_id,
               successor_id |-> successor_id,
               x1 |-> pred_bar.x + pred_bar.w,
               y1 |-> pred_bar.y2 + pred_bar.h,
               x2 |-> succ_bar.x,
               y2 |-> succ_bar.y2 + succ_bar.h]}

\* draw_chart: bars and progress items of self.tasks, then the arrows of the
\* dependencies whose two ends have a row
draw_chart(objs, ids, deps, mind, uw) ==
    LET rows == task_rows(ids)
        bars == [id \in Range(ids) |->
                    draw_task_bar(TaskById(objs, id), rows[id], mind, uw)]
        prog == [id \in {i \in Range(ids) : HasProgressBar(TaskById(objs, i))}
                    |-> draw_progress_bar(TaskById(objs, id), rows[id],
                                          mind, uw)]
    IN  [task_bars |-> bars,
         progress_bars |-> prog,
         bar_colors |-> [id \in Range(ids) |->
                            bar_color(TaskById(objs, id))],
         arrows |-> UNION {draw_dependency_arrow(d.predecessor_id,
                                                 d.successor_id, bars) :
                           d \in {e \in deps :
                                    /\ e.predecessor_id \in DOMAIN rows
                                    /\ e.successor_id \in DOMAIN rows}}]

EmptyScene ==
    [task_bars |-> <<>>, progress_bars |-> <<>>, bar_colors |-> <<>>,
     arrows |-> {}]

\* load_tasks(tasks, dependencies): the chart state after the call, given
\* the date range it had before
load_tasks(objs, ids, deps, old_min, old_max, uw) ==
    IF ids = <<>>
    THEN [tasks |-> ids, dependencies |-> deps,
          min_date |-> old_min, max_date |-> old_max, scene |-> EmptyScene]
    ELSE LET range == calculate_date_range(objs, ids)
         IN  [tasks |-> ids, dependencies |-> deps,
              min_date |-> <<range.min_date>>,
              max_date |-> <<range.max_date>>,
              scene |-> draw_chart(objs, ids, deps, range.min_date, uw)]

\* MainWindow.refresh_view: Task objects from the rows, the hierarchy, and
\* the chart loaded with the root tasks
refresh_view(db, deps, old_min, old_max, uw) ==
    LET rows == get_tasks_by_project(db)
        objs == BuildChildren([i \in 1..Len(rows) |-> from_db_row(rows[i])])
        root_tasks == RootTasks(objs)
    IN  [current_tasks |-> objs,
         chart |-> load_tasks(objs, root_tasks,
                              get_all_dependencies(db, deps),
                              old_min, old_max, uw)]

\* date.weekday(): 0 for Monday (2024-01-01, day 0, is a Monday)
weekday(d) == d % 7

\* date(d.year, d.month, 1)
MonthStart(d) == DateFromIso(<<DateToIso(d)[1], DateToIso(d)[2], 1>>)

\* the first day of the month after the month that starts on day ms
NextMonth(ms) ==
    IF ms < 0 THEN 0 ELSE ms + DaysInMonth2024[DateToIso(ms)[2]]

\* _draw_background_day: one gridline per day from min_date, x growing by
\* day_width from left_margin
_draw_background_day(mind, maxd, uw) ==
    {[date |-> d, x |-> left_margin + (d - mind) * uw] : d \in mind..maxd}

\* _draw_background_week: the weeks from the Monday on or before min_date,
\* the first at x = left_margin, each with its label and gridline at x and
\* the gridlines of its days up to max_date
_draw_background_week(mind, maxd, uw) ==
    LET first == mind - weekday(mind)
        weeks == {k \in 0..((maxd - first) \div 7) : first + 7 * k <= maxd}
    IN  UNION {{[date |-> first + 7 * k + day,
                 x |-> (left_margin + 7 * k * uw) + day * uw] :
                    day \in {n \in 0..6 : first + 7 * k + n <= maxd}} :
               k \in weeks}

\* _draw_background_month: the months from the first day of min_date's
\* month, the first at x = left_margin, each with its label and gridline at
\* x and the gridlines of its weeks
RECURSIVE _draw_background_month_from(_, _, _, _)
_draw_background_month_from(current_month_start, x, maxd, uw) ==
    IF current_month_start > maxd THEN {}
    ELSE LET next_month == NextMonth(current_month_start)
             days_in_month == next_month - current_month_start
         IN  {[date |-> current_month_start + 7 * j, x |-> x + 7 * j * uw] :
                  j \in {n \in 0..4 : 7 * n < days_in_month}}
             \cup _draw_background_month_from(next_month,
                                             x + days_in_month * uw, maxd, uw)

_draw_background_month(mind, maxd, uw) ==
    _draw_background_month_from(MonthStart(mind), left_margin, maxd, uw)

\* draw_background: the gridlines of the header in the view mode
draw_background(mode, mind, maxd, uw) ==
    IF mode = "day" THEN _draw_background_day(mind, maxd, uw)
    ELSE IF mode = "week" THEN _draw_background_week(mind, maxd, uw)
    ELSE _draw_background_month(mind, maxd, uw)

\* draw_chart: the scene rectangle (0, 0, scene_width, scene_height)
setSceneRect(ids, mind, maxd, uw) ==
    [w |-> Max(left_margin + (maxd - mind) * uw + 100, 2000),
     h |-> Max(top_margin + Len(ids) * row_height + 100, 1000)]

\* the gridlines of the header in the scene, each with the date it is drawn
\* for: load_tasks and set_view_mode clear the scene and draw it anew from
\* the tasks, the date range and the view mode of the widget
header_lines ==
    IF tasks = <<>> THEN {}
    ELSE draw_background(view_mode, min_date[1], max_date[1], day_width)

\* the scene rectangle that draw_chart has set for the tasks of the chart
scene_rect ==
    IF tasks = <<>> THEN None
    ELSE <<setSceneRect(tasks, min_date[1], max_date[1], day_width)>>

\* TaskTreeWidget.load_tasks: the top-level items are the tasks with
\* parent_id None, in the order of the list
tree_load_tasks(objs) ==
    LET IsRoot(t) == t.parent_id = NoParent
    IN  IdSeq(SelectSeq(objs, IsRoot))

\* the next state of the chart variables after refresh_view on store db
Refreshed(db) ==
    IF \E i \in DOMAIN db : RowRaises(db[i])
    THEN \* from_db_row raises before current_tasks is assigned
         /\ exception' = <<"from_db_row">>
         /\ UNCHANGED chartVars
    ELSE
    LET r == refresh_view(db, db_deps, min_date, max_date, day_width)
    IN  /\ exception' = None
        /\ current_tasks' = r.current_tasks
        /\ tasks' = r.chart.tasks
        /\ dependencies' = r.chart.dependencies
        /\ min_date' = r.chart.min_date
        /\ max_date' = r.chart.max_date
        /\ task_bars' = r.chart.scene.task_bars
        /\ progress_bars' = r.chart.scene.progress_bars
        /\ arrows' = r.chart.scene.arrows
        /\ bar_colors' = r.chart.scene.bar_colors
        /\ tree_items' = tree_load_tasks(r.current_tasks)

(***************************************************************************)
(* Interaction (mousePressEvent, mouseMoveEvent, mouseReleaseEvent)         *)
(***************************************************************************)
\* scene.itemAt at x in the row of task t: the progress item lies over the
\* bar of its task (it is added to the scene after it); <<>> when there is
\* no task rectangle there.  Text items are not modelled: the part of a bar
\* below its labels is free of them.
itemAt(x, t, bars, prog) ==
    IF /\ t \in DOMAIN prog
       /\ prog[t].x <= x
       /\ 100 * (x - prog[t].x) < prog[t].w100
    THEN <<"progress", t>>
    ELSE IF /\ t \in DOMAIN bars
            /\ bars[t].x <= x
            /\ x < bars[t].x + bars[t].w
         THEN <<"bar", t>>
         ELSE None

\* mousePressEvent: drag mode of a press on a bar at local_x = x - rect.x
PressMode(local_x, width) ==
    IF local_x < resize_edge_margin THEN "resize_left"
    ELSE IF local_x > width - resize_edge_margin THEN "resize_right"
    ELSE "move"

\* mouseMoveEvent: abs(delta_x) > 3
ExceedsJitter(delta_x) == Abs(delta_x) > JitterPx

\* the anchor stays at the press position
MoveDrag_NoReanchor(rect, delta_x, start_x, x) ==
    [rect |-> [rect EXCEPT !.x = rect.x + delta_x], anchor |-> start_x]

\* mouseMoveEvent, 'move': the new rectangle and the new drag_start_pos
MoveDrag(rect, delta_x, start_x, x) ==
    [rect |-> [rect EXCEPT !.x = rect.x + delta_x], anchor |-> x]

\* mouseMoveEvent, 'resize_left': applied and re-anchored only when the new
\* width is more than one day
ResizeLeftDrag(rect, delta_x, start_x, x, uw) ==
    IF rect.w - delta_x > uw
    THEN [rect |-> [rect EXCEPT !.x = rect.x + delta_x,
                                !.w = rect.w - delta_x],
          anchor |-> x]
    ELSE [rect |-> rect, anchor |-> start_x]

\* 'resize_right' without the minimum-width guard
ResizeRightDrag_NoMinimum(rect, delta_x, start_x, x, uw) ==
    [rect |-> [rect EXCEPT !.w = rect.w + delta_x], anchor |-> x]

\* mouseMoveEvent, 'resize_right'
ResizeRightDrag(rect, delta_x, start_x, x, uw) ==
    IF rect.w + delta_x > uw
    THEN [rect |-> [rect EXCEPT !.w = rect.w + delta_x], anchor |-> x]
    ELSE [rect |-> rect, anchor |-> start_x]

\* mouseMoveEvent, 'progress': the right edge follows the pointer inside the
\* task bar
ProgressDrag(rect, task_bar_rect, x) ==
    LET new_progress_x ==
            IF x < task_bar_rect.x THEN task_bar_rect.x
            ELSE IF x > task_bar_rect.x + task_bar_rect.w
                 THEN task_bar_rect.x + task_bar_rect.w
                 ELSE x
    IN  [rect EXCEPT !.x = task_bar_rect.x,
                     !.w100 = 100 * (new_progress_x - task_bar_rect.x)]

\* the width ratio taken as the progress, not scaled to percent
CommitProgress_NoPercent(progress_rect, task_bar_rect) ==
    Max(0, Min(100, (progress_rect.w100 \div 100) \div task_bar_rect.w))

\* mouseReleaseEvent: new progress of a progress drag,
\*   max(0, min(100, int(progress_rect.width() / task_bar_rect.width() * 100)))
\* (after a pointer-move the progress width is a whole number of pixels)
CommitProgress(progress_rect, task_bar_rect) ==
    Max(0, Min(100, PyIntPercent(progress_rect.w100 \div 100, task_bar_rect.w)))

\* start_days without taking the left margin off
StartDays_NoMargin(rect, uw) == PyRound(rect.x, uw)

\* mouseReleaseEvent: start_days = round((rect.x() - left_margin) / day_width)
StartDays(rect, uw) == PyRound(rect.x - left_margin, uw)

\* mouseReleaseEvent: duration_days = round(rect.width() / day_width)
DurationDays(rect, uw) == PyRound(rect.w, uw)

\* mouseReleaseEvent: (new_start, new_end) of a move or resize
CommitDates(rect, mind, uw) ==
    LET new_start == mind + StartDays(rect, uw)
    IN  <<new_start, new_start + (DurationDays(rect, uw) - 1)>>

\* the rectangle of the dragged item
ItemRect(item) ==
    IF item[1] = "progress" THEN progress_bars[item[2]] ELSE task_bars[item[2]]

(***************************************************************************)
(* Signals                                                                  *)
(***************************************************************************)
task_clicked(id) == [sig |-> "task_clicked", id |-> id]

task_date_changed(id, start_date, end_date) ==
    [sig |-> "task_date_changed", id |-> id,
     start_date |-> start_date, end_date |-> end_date]

task_progress_changed(id, progress) ==
    [sig |-> "task_progress_changed", id |-> id, progress |-> progress]

task_order_changed == [sig |-> "task_order_changed"]

(***************************************************************************)
(* Observation of a gesture (press, pointer-moves, release)                 *)
(***************************************************************************)
NoRect == [x |-> 0, y2 |-> 0, w |-> 0, h |-> 0]

NoGesture ==
    [phase |-> "none", id |-> 0, mode |-> "none", uw |-> 0, mind |-> 0,
     press_x |-> 0, last_x |-> 0, max_dev |-> 0,
     bar0 |-> NoRect, orig_dates |-> None, orig_progress |-> None,
     moved |-> FALSE, bar1 |-> NoRect, width1 |-> 0, emitted |-> <<>>]

(***************************************************************************)
(* Inputs                                                                   *)
(***************************************************************************)
\* offsets from a bar's left edge at which presses are tried: the last pixel
\* of the left edge margin, the last pixel before the right edge margin and
\* the first pixel of it
PressLocals(w) ==
    {k \in {resize_edge_margin - 1, w - resize_edge_margin,
            w - resize_edge_margin + 1} :
        0 <= k /\ k < w}

\* pointer displacements of one pointer-move: at the jitter threshold in
\* both directions, half a day, and a whole day in both directions
Steps(uw) ==
    {0 - uw, 0 - JitterPx, JitterPx, uw \div 2, uw}

(***************************************************************************)
(* Actions                                                                  *)
(***************************************************************************)
\* mousePressEvent, left button, at x in the row of task t (t = 0: a place
\* without a task rectangle)
MousePress(x, t) ==
    LET item == itemAt(x, t, task_bars, progress_bars)
        found == t \in Range(_flatten_tasks(current_tasks, tasks))
        task == TaskById(current_tasks, t)
        mode == IF item[1] = "progress" THEN "progress"
                ELSE PressMode(x - task_bars[t].x, task_bars[t].w)
    IN  /\ ~pressed
        /\ exception = None
        /\ n_gestures < MaxGestures
        /\ pressed' = TRUE
        /\ n_gestures' = n_gestures + 1
        /\ n_moves' = n_moves
        /\ UNCHANGED <<dbVars, chartVars, modeVars, exception, n_ops>>
        /\ IF item = None
           THEN /\ signals' = <<>>
                /\ gesture' = [NoGesture EXCEPT !.phase = "down",
                                                !.press_x = x, !.last_x = x,
                                                !.uw = day_width]
                /\ UNCHANGED <<dragVars, cursor>>
           ELSE /\ signals' = <<task_clicked(t)>>
                /\ drag_mode' = mode
                /\ cursor' = IF mode = "move" THEN "closed_hand" ELSE "size_hor"
                /\ dragging_item' = item
                /\ drag_start_pos' = <<x>>
                /\ has_moved' = FALSE
                /\ original_progress' =
                       IF mode = "progress" /\ found THEN <<task.progress>>
                       ELSE original_progress
                /\ original_task_dates' =
                       IF mode # "progress" /\ found
                       THEN <<task.start_date, task.end_date>>
                       ELSE original_task_dates
                /\ gesture' = [NoGesture EXCEPT
                                  !.phase = "down", !.id = t, !.mode = mode,
                                  !.uw = day_width, !.mind = min_date[1],
                                  !.press_x = x, !.last_x = x,
                                  !.bar0 = task_bars[t],
                                  !.orig_dates = <<task.start_date,
                                                   task.end_date>>,
                                  !.orig_progress = <<task.progress>>,
                                  !.emitted = <<task_clicked(t)>>]

\* the progress item of the dragged bar follows the bar
DragMove_WithProgress(x) ==
    LET start_x == drag_start_pos[1]
        delta_x == x - start_x
        id == dragging_item[2]
        rect == ItemRect(dragging_item)
        res == IF drag_mode = "move"
               THEN MoveDrag(rect, delta_x, start_x, x)
               ELSE IF drag_mode = "resize_left"
               THEN ResizeLeftDrag(rect, delta_x, start_x, x, day_width)
               ELSE IF drag_mode = "resize_right"
               THEN ResizeRightDrag(rect, delta_x, start_x, x, day_width)
               ELSE [rect |-> rect, anchor |-> start_x]
    IN  /\ has_moved' = (has_moved \/ ExceedsJitter(delta_x))
        /\ IF drag_mode = "progress"
           THEN /\ progress_bars' =
                      IF id \in DOMAIN task_bars
                      THEN [progress_bars EXCEPT
                               ![id] = ProgressDrag(rect, task_bars[id], x)]
                      ELSE progress_bars
                /\ UNCHANGED <<task_bars, drag_start_pos>>
           ELSE /\ task_bars' = [task_bars EXCEPT ![id] = res.rect]
                /\ drag_start_pos' = <<res.anchor>>
                /\ progress_bars' =
                      IF id \in DOMAIN progress_bars
                      THEN [progress_bars EXCEPT ![id].x = res.rect.x]
                      ELSE progress_bars
        /\ UNCHANGED <<cursor, dragging_item, drag_mode, original_task_dates,
                       original_progress>>

\* mousePressEvent, left button, delivered while the left button is already
\* held (a second pointing device, a synthesized event): the handler does
\* not look at the drag state
MousePressHeld(x, t) ==
    LET item == itemAt(x, t, task_bars, progress_bars)
        found == t \in Range(_flatten_tasks(current_tasks, tasks))
        task == TaskById(current_tasks, t)
        mode == IF item[1] = "progress" THEN "progress"
                ELSE PressMode(x - task_bars[t].x, task_bars[t].w)
    IN  /\ pressed
        /\ exception = None
        /\ n_moves < MaxMoves
        /\ n_moves' = n_moves + 1
        /\ UNCHANGED <<dbVars, chartVars, modeVars, exception, pressed,
                       n_gestures, n_ops>>
        /\ IF item = None
           THEN /\ signals' = <<>>
                /\ UNCHANGED <<dragVars, cursor, gesture>>
           ELSE /\ signals' = <<task_clicked(t)>>
                /\ drag_mode' = mode
                /\ cursor' = IF mode = "move" THEN "closed_hand" ELSE "size_hor"
                /\ dragging_item' = item
                /\ drag_start_pos' = <<x>>
                /\ has_moved' = FALSE
                /\ original_progress' =
                       IF mode = "progress" /\ found THEN <<task.progress>>
                       ELSE original_progress
                /\ original_task_dates' =
                       IF mode # "progress" /\ found
                       THEN <<task.start_date, task.end_date>>
                       ELSE original_task_dates
                /\ gesture' = [gesture EXCEPT
                                  !.emitted = @ \o <<task_clicked(t)>>]

\* mouseMoveEvent while an item is dragged, pointer at x
DragMove(x) ==
    LET start_x == drag_start_pos[1]
        delta_x == x - start_x
        id == dragging_item[2]
        rect == ItemRect(dragging_item)
        res == IF drag_mode = "move"
               THEN MoveDrag(rect, delta_x, start_x, x)
               ELSE IF drag_mode = "resize_left"
               THEN ResizeLeftDrag(rect, delta_x, start_x, x, day_width)
               ELSE IF drag_mode = "resize_right"
               THEN ResizeRightDrag(rect, delta_x, start_x, x, day_width)
               ELSE [rect |-> rect, anchor |-> start_x]
    IN  /\ has_moved' = (has_moved \/ ExceedsJitter(delta_x))
        /\ IF drag_mode = "progress"
           THEN /\ progress_bars' =
                      IF id \in DOMAIN task_bars
                      THEN [progress_bars EXCEPT
                               ![id] = ProgressDrag(rect, task_bars[id], x)]
                      ELSE progress_bars
                /\ UNCHANGED <<task_bars, drag_start_pos>>
           ELSE /\ task_bars' = [task_bars EXCEPT ![id] = res.rect]
                /\ drag_start_pos' = <<res.anchor>>
                /\ UNCHANGED progress_bars
        /\ UNCHANGED <<cursor, dragging_item, drag_mode, original_task_dates,
                       original_progress>>

\* mouseMoveEvent without a drag: only the cursor follows the item under the
\* pointer
HoverMove(x, t) ==
    LET item == itemAt(x, t, task_bars, progress_bars)
        rect == ItemRect(item)
        width == IF item[1] = "progress" THEN rect.w100 \div 100 ELSE rect.w
        local_x == x - rect.x
    IN  /\ cursor' = IF item = None THEN "arrow"
                     ELSE IF \/ local_x < resize_edge_margin
                             \/ local_x > width - resize_edge_margin
                          THEN "size_hor" ELSE "open_hand"
        /\ UNCHANGED <<task_bars, progress_bars, dragVars>>

\* mouseMoveEvent, pointer at x in the row of task t
MouseMove(x, t) ==
    /\ exception = None
    /\ signals' = <<>>
    /\ IF /\ dragging_item # None
          /\ drag_start_pos # None
          /\ (original_task_dates # None \/ original_progress # None)
       THEN DragMove(x)
       ELSE HoverMove(x, t)
    /\ IF pressed
       THEN /\ n_moves < MaxMoves
            /\ n_moves' = n_moves + 1
            /\ gesture' = [gesture EXCEPT
                              !.last_x = x,
                              !.max_dev = Max(@, Abs(x - gesture.press_x))]
       ELSE /\ n_moves' = n_moves
            /\ gesture' = NoGesture
    /\ UNCHANGED <<dbVars, current_tasks, tasks, dependencies, min_date,
                   max_date, arrows, bar_colors, tree_items, modeVars,
                   pressed, exception,
                   n_gestures, n_ops>>

\* the release of a dragged item emits task_clicked again before the change
ReleaseSignals_ClickFirst ==
    IF dragging_item # None /\ has_moved
    THEN LET task_id == dragging_item[2]
             rect == ItemRect(dragging_item)
         IN  <<task_clicked(task_id)>> \o
             (IF drag_mode = "progress" /\ original_progress # None
              THEN IF task_id \in DOMAIN task_bars
                   THEN LET new_progress ==
                                CommitProgress(rect, task_bars[task_id])
                        IN  IF new_progress # original_progress[1]
                            THEN <<task_progress_changed(task_id, new_progress)>>
                            ELSE <<>>
                   ELSE <<>>
              ELSE IF original_task_dates # None
                   THEN LET new == CommitDates(rect, min_date[1], day_width)
                        IN  IF \/ new[1] # original_task_dates[1]
                               \/ new[2] # original_task_dates[2]
                            THEN <<task_date_changed(task_id,
                                                     DateToIso(new[1]),
                                                     DateToIso(new[2]))>>
                            ELSE <<>>
                   ELSE <<>>)
    ELSE <<>>

\* the signal mouseReleaseEvent emits, as a sequence of zero or one signals
ReleaseSignals ==
    IF dragging_item # None /\ has_moved
    THEN LET task_id == dragging_item[2]
             rect == ItemRect(dragging_item)
         IN  IF drag_mode = "progress" /\ original_progress # None
             THEN IF task_id \in DOMAIN task_bars
                  THEN LET new_progress ==
                               CommitProgress(rect, task_bars[task_id])
                       IN  IF new_progress # original_progress[1]
                           THEN <<task_progress_changed(task_id, new_progress)>>
                           ELSE <<>>
                  ELSE <<>>
             ELSE IF original_task_dates # None
                  THEN LET new == CommitDates(rect, min_date[1], day_width)
                       IN  IF \/ new[1] # original_task_dates[1]
                              \/ new[2] # original_task_dates[2]
                           THEN <<task_date_changed(task_id,
                                                    DateToIso(new[1]),
                                                    DateToIso(new[2]))>>
                           ELSE <<>>
                  ELSE <<>>
    ELSE <<>>

\* MainWindow.on_task_date_changed / on_task_progress_changed: the store
\* after the slot connected to signal s has run
StoreAfter(s) ==
    IF s.sig = "task_date_changed"
    THEN update_task_dates(db_tasks, s.id, s.start_date, s.end_date)
    ELSE IF s.sig = "task_progress_changed"
    THEN update_task_progress(db_tasks, s.id, s.progress)
    ELSE db_tasks

\* mouseReleaseEvent, left button: an emitted change is written to the store
\* and the view refreshed by the connected slot before the drag state is
\* cleared
MouseRelease ==
    LET emitted == ReleaseSignals
    IN  /\ pressed
        /\ exception = None
        /\ pressed' = FALSE
        /\ n_moves' = n_moves
        /\ signals' = emitted
        /\ IF emitted # <<>>
           THEN /\ db_tasks' = StoreAfter(emitted[1])
                /\ Refreshed(StoreAfter(emitted[1]))
                /\ UNCHANGED db_deps
           ELSE UNCHANGED <<dbVars, chartVars, exception>>
        /\ dragging_item' = None
        /\ drag_start_pos' = None
        /\ drag_mode' = "none"
        /\ original_task_dates' = None
        /\ original_progress' = None
        /\ has_moved' = FALSE
        /\ cursor' = "arrow"
        /\ gesture' = [gesture EXCEPT
                          !.phase = "up",
                          !.moved = has_moved,
                          !.bar1 = IF gesture.id \in DOMAIN task_bars
                                   THEN task_bars[gesture.id] ELSE NoRect,
                          !.width1 = IF gesture.mode = "progress"
                                     THEN progress_bars[gesture.id].w100
                                     ELSE 0,
                          !.emitted = @ \o emitted]
        /\ UNCHANGED <<modeVars, n_gestures, n_ops>>

\* set_view_mode(mode), reached from the toolbar between gestures
SetViewMode(mode) ==
    /\ ~pressed
    /\ exception = None
    /\ signals' = <<>>
    /\ IF mode \notin ViewModes
       THEN UNCHANGED <<modeVars, task_bars, progress_bars, arrows,
                        bar_colors>>
       ELSE /\ view_mode' = mode
            /\ day_width' = DayWidthOf(mode)
            /\ IF tasks # <<>>
               THEN LET scene == draw_chart(current_tasks, tasks, dependencies,
                                            min_date[1], DayWidthOf(mode))
                    IN  /\ task_bars' = scene.task_bars
                        /\ progress_bars' = scene.progress_bars
                        /\ arrows' = scene.arrows
                        /\ bar_colors' = scene.bar_colors
               ELSE UNCHANGED <<task_bars, progress_bars, arrows,
                                bar_colors>>
    /\ gesture' = NoGesture
    /\ UNCHANGED <<dbVars, current_tasks, tasks, dependencies, min_date,
                   max_date, tree_items, dragVars, cursor, pressed, exception,
                   n_gestures, n_moves, n_ops>>

\* MainWindow.refresh_view, reached from the toolbar between gestures
RefreshView ==
    /\ ~pressed
    /\ exception = None
    /\ signals' = <<>>
    /\ Refreshed(db_tasks)
    /\ gesture' = NoGesture
    /\ UNCHANGED <<dbVars, modeVars, dragVars, cursor, pressed, n_gestures,
                   n_moves, n_ops>>

\* MainWindow.add_new_task / add_child_task with the dialog accepted:
\* create_task (the new row gets the rowid after the largest one) and
\* refresh_view
AddTask(parent_id, start_date, end_date, progress, is_milestone) ==
    /\ ~pressed
    /\ exception = None
    /\ Cardinality(DOMAIN db_tasks) < MaxTasks
    /\ LET task_id == SetMax(DOMAIN db_tasks \cup {0}) + 1
           db == create_task(db_tasks, task_id, parent_id,
                             DateToIso(start_date), DateToIso(end_date),
                             progress, is_milestone, None)
       IN  /\ db_tasks' = db
           /\ Refreshed(db)
    /\ signals' = <<>>
    /\ gesture' = NoGesture
    /\ UNCHANGED <<db_deps, modeVars, dragVars, cursor, pressed, n_gestures,
                   n_moves, n_ops>>

\* MainWindow.edit_task with the dialog accepted: update_task with the
\* dialog's fields, then refresh_view; nothing when the task is not loaded
EditTask(task_id, start_date, end_date, progress, is_milestone) ==
    /\ ~pressed
    /\ exception = None
    /\ n_ops < MaxStoreOps
    /\ n_ops' = n_ops + 1
    /\ signals' = <<>>
    /\ gesture' = NoGesture
    /\ IF task_id \notin IdsOf(current_tasks)
       THEN UNCHANGED <<db_tasks, chartVars, exception>>
       ELSE LET db == update_task(db_tasks, task_id,
                                  [name |-> "", description |-> "",
                                   start_date |-> DateToIso(start_date),
                                   end_date |-> DateToIso(end_date),
                                   progress |-> progress,
                                   is_milestone |-> is_milestone,
                                   color |->
                                       TaskById(current_tasks, task_id).color,
                                   assignee |-> None])
            IN  /\ db_tasks' = db
                /\ Refreshed(db)
    /\ UNCHANGED <<db_deps, modeVars, dragVars, cursor, pressed, n_gestures,
                   n_moves>>

\* MainWindow.on_task_deleted (the deletion was confirmed in the tree):
\* delete_task, then refresh_view
DeleteTask(task_id) ==
    /\ ~pressed
    /\ exception = None
    /\ n_ops < MaxStoreOps
    /\ n_ops' = n_ops + 1
    /\ signals' = <<>>
    /\ gesture' = NoGesture
    /\ db_tasks' = delete_task(db_tasks, task_id)
    /\ Refreshed(delete_task(db_tasks, task_id))
    /\ UNCHANGED <<db_deps, modeVars, dragVars, cursor, pressed, n_gestures,
                   n_moves>>

\* MainWindow.on_task_date_changed, the slot of task_date_changed:
\* update_task(start_date, end_date), then refresh_view
on_task_date_changed(task_id, start_date, end_date) ==
    /\ ~pressed
    /\ exception = None
    /\ n_ops < MaxStoreOps
    /\ n_ops' = n_ops + 1
    /\ signals' = <<>>
    /\ gesture' = NoGesture
    /\ db_tasks' = update_task_dates(db_tasks, task_id, start_date, end_date)
    /\ Refreshed(update_task_dates(db_tasks, task_id, start_date, end_date))
    /\ UNCHANGED <<db_deps, modeVars, dragVars, cursor, pressed, n_gestures,
                   n_moves>>

\* MainWindow.on_task_progress_changed, the slot of task_progress_changed:
\* update_task(progress), then refresh_view
on_task_progress_changed(task_id, progress) ==
    /\ ~pressed
    /\ exception = None
    /\ n_ops < MaxStoreOps
    /\ n_ops' = n_ops + 1
    /\ signals' = <<>>
    /\ gesture' = NoGesture
    /\ db_tasks' = update_task_progress(db_tasks, task_id, progress)
    /\ Refreshed(update_task_progress(db_tasks, task_id, progress))
    /\ UNCHANGED <<db_deps, modeVars, dragVars, cursor, pressed, n_gestures,
                   n_moves>>

\* the sequence items with the element at position from moved to position to
MoveItem(items, from, to) ==
    LET rest == [k \in 1..(Len(items) - 1) |->
                    IF k < from THEN items[k] ELSE items[k + 1]]
    IN  [k \in 1..Len(items) |->
            IF k < to THEN rest[k]
            ELSE IF k = to THEN items[from]
            ELSE rest[k - 1]]

\* TaskTreeWidget.dropEvent: the tree moves the dragged top-level item
\* (InternalMove) and emits task_order_changed, to which no slot is
\* connected
dropEvent(from, to) ==
    /\ ~pressed
    /\ exception = None
    /\ n_ops < MaxStoreOps
    /\ n_ops' = n_ops + 1
    /\ tree_items' = MoveItem(tree_items, from, to)
    /\ signals' = <<task_order_changed>>
    /\ gesture' = NoGesture
    /\ UNCHANGED <<dbVars, current_tasks, tasks, dependencies, min_date,
                   max_date, task_bars, progress_bars, arrows, bar_colors,
                   modeVars,
                   dragVars, cursor, pressed, exception, n_gestures, n_moves>>

(***************************************************************************)
(* Initial states: MainWindow() on an existing store                        *)
(***************************************************************************)
Row(id, parent_id, start_date, end_date, progress, is_milestone, sort_order) ==
    [id |-> id, parent_id |-> parent_id,
     start_date |-> DateToIso(start_date), end_date |-> DateToIso(end_date),
     progress |-> progress, is_milestone |-> is_milestone,
     sort_order |-> sort_order,
     baseline_start_date |-> None, baseline_end_date |-> None,
     color |-> None]

Dep(predecessor_id, successor_id, dependency_type) ==
    [predecessor_id |-> predecessor_id, successor_id |-> successor_id,
     dependency_type |-> dependency_type]

\* the stores the interaction is explored on (day 9 is 2024-01-10)
InitStores ==
    { <<Row(1, NoParent, 9, 11, 40, FALSE, 0),
        Row(2, NoParent, 10, 10, 0, FALSE, 0),
        Row(3, 1, 10, 11, 0, FALSE, 0)>> }

InitDeps == {Dep(1, 2, "FS"), Dep(1, 3, "SS")}

\* the state MainWindow.__init__ leaves: widgets constructed, then
\* refresh_view on the store
InitOn(db, deps) ==
    LET raises == \E i \in DOMAIN db : RowRaises(db[i])
        r == IF raises
             THEN [current_tasks |-> <<>>,
                   chart |-> [tasks |-> <<>>, dependencies |-> {},
                              min_date |-> None, max_date |-> None,
                              scene |-> EmptyScene]]
             ELSE refresh_view(db, deps, None, None, DayWidthOf("day"))
    IN  /\ db_tasks = db
        /\ db_deps = deps
        /\ view_mode = "day"
        /\ day_width = DayWidthOf("day")
        /\ exception = IF raises THEN <<"from_db_row">> ELSE None
        /\ n_ops = 0
        /\ current_tasks = r.current_tasks
        /\ tasks = r.chart.tasks
        /\ dependencies = r.chart.dependencies
        /\ min_date = r.chart.min_date
        /\ max_date = r.chart.max_date
        /\ task_bars = r.chart.scene.task_bars
        /\ progress_bars = r.chart.scene.progress_bars
        /\ arrows = r.chart.scene.arrows
        /\ bar_colors = r.chart.scene.bar_colors
        /\ tree_items = tree_load_tasks(r.current_tasks)
        /\ dragging_item = None
        /\ drag_start_pos = None
        /\ drag_mode = "none"
        /\ original_task_dates = None
        /\ original_progress = None
        /\ has_moved = FALSE
        /\ cursor = "arrow"
        /\ pressed = FALSE
        /\ signals = <<>>
        /\ gesture = NoGesture
        /\ n_gestures = 0
        /\ n_moves = 0

Init == \E store \in InitStores : InitOn(store, InitDeps)

\* the places a press or a hover is tried at
PointerTargets ==
    {<<0, 0>>} \cup
    UNION {{<<task_bars[t].x + k, t>> : k \in PressLocals(task_bars[t].w)} :
           t \in DOMAIN task_bars}

\* the places a hover is tried at: off the bars and on the first bar
HoverTargets == {p \in PointerTargets : p[2] \in {0, tasks[1]}}

Press == \E p \in PointerTargets : MousePress(p[1], p[2])

Move ==
    \/ /\ pressed
       /\ \E d \in Steps(day_width) : MouseMove(gesture.last_x + d, 0)
    \/ /\ ~pressed
       /\ \E p \in HoverTargets : MouseMove(p[1], p[2])

Release == MouseRelease

ViewMode == \E mode \in ViewModes \cup {"year"} : SetViewMode(mode)

Next == Press \/ Move \/ Release \/ ViewMode \/ RefreshView

Spec == Init /\ [][Next]_vars

(***************************************************************************)
(* Presses that arrive while the left button is held                        *)
(***************************************************************************)
PressHeld == \E p \in PointerTargets : MousePressHeld(p[1], p[2])

NextPress == Press \/ Move \/ Release \/ PressHeld

SpecPress == Init /\ [][NextPress]_vars

(***************************************************************************)
(* Layout: the chart of projects of several shapes, grown by the dialog     *)
(***************************************************************************)
\* stores of three tasks: task 1 is a root, task 2 a root or a child of 1,
\* task 3 a root or a child of 1 or 2; task 1 sorts first or last
LayoutStores ==
    { <<Row(1, NoParent, 9, 11, 40, FALSE, so),
        Row(2, p2, 10, 10, 0, FALSE, 0),
        Row(3, p3, 12, 13, 0, FALSE, 0)>> :
      so \in {0, 1}, p2 \in {NoParent, 1}, p3 \in {NoParent, 1, 2} }

LayoutDeps == {Dep(1, 2, "FS"), Dep(2, 3, "SS"), Dep(3, 1, "FF")}

\* what the dialog is filled with: (start, end, progress, milestone); the
\* two date fields are independent of each other and of the milestone box
DialogInputs ==
    {<<7, 7, 50, FALSE>>, <<12, 14, 0, FALSE>>, <<12, 14, 0, TRUE>>,
     <<12, 10, 0, FALSE>>}

InitLayout ==
    \E store \in LayoutStores, deps \in SUBSET LayoutDeps :
        InitOn(store, deps)

NewTask ==
    \E parent_id \in {NoParent} \cup DOMAIN db_tasks, d \in DialogInputs :
        AddTask(parent_id, d[1], d[2], d[3], d[4])

NextLayout == NewTask \/ ViewMode \/ RefreshView

SpecLayout == InitLayout /\ [][NextLayout]_vars

(***************************************************************************)
(* Tree: reordering the items of the task tree by drag-and-drop             *)
(***************************************************************************)
\* the user drags a top-level item of the tree to another position
Drop ==
    \E from \in 1..Len(tree_items), to \in 1..Len(tree_items) :
        from # to /\ dropEvent(from, to)

NextTree == Drop \/ ViewMode \/ RefreshView

SpecTree == InitLayout /\ [][NextTree]_vars

(***************************************************************************)
(* Colour: projects of two tasks with and without a custom colour           *)
(***************************************************************************)
\* what decides the colour of a bar: (color, is_milestone, progress)
ColourInputs ==
    {None, <<"#ff9800">>} \X BOOLEAN \X {0, 1, 99, 100}

ColourStores ==
    { <<[Row(1, NoParent, 9, 11, a[3], a[2], 0) EXCEPT !.color = a[1]],
        [Row(2, NoParent, 10, 10, b[3], b[2], 0) EXCEPT !.color = b[1]]>> :
      a \in ColourInputs, b \in ColourInputs }

InitColour == \E store \in ColourStores : InitOn(store, {})

NextColour == ViewMode \/ RefreshView

SpecColour == InitColour /\ [][NextColour]_vars

(***************************************************************************)
(* Scene: projects of many rows                                             *)
(***************************************************************************)
\* the largest number of root tasks of a project
MaxRows == 15

\* n root tasks, one per row, that start on the same day and last the same
\* number of days
SceneStores ==
    { [id \in 1..n |-> Row(id, NoParent, start, start + days - 1, 0, FALSE, 0)] :
      n \in 1..MaxRows, start \in {9, 10, 40}, days \in {1, 30} }

InitScene == \E store \in SceneStores : InitOn(store, {})

NextScene == ViewMode \/ RefreshView

SpecScene == InitScene /\ [][NextScene]_vars

(***************************************************************************)
(* Store: creating, editing and deleting the tasks of a project             *)
(***************************************************************************)
WithBaseline(row, baseline_start_date, baseline_end_date) ==
    [row EXCEPT !.baseline_start_date = baseline_start_date,
                !.baseline_end_date = baseline_end_date]

\* a chain 1 <- 2 <- 3 of tasks with start <= end: task 1 has both
\* baseline columns set, task 2 only the start, task 3 only the end (a task
\* the dialog creates has none)
ChainStores ==
    { <<WithBaseline(Row(1, NoParent, 9, 11, 40, FALSE, 0),
                     DateToIso(8), DateToIso(10)),
        WithBaseline(Row(2, 1, 10, 10, 0, FALSE, 0), DateToIso(8), None),
        WithBaseline(Row(3, 2, 12, 13, 0, FALSE, 0), None, DateToIso(13))>> }

\* stores with a row whose start_date is NULL or whose end_date is no date
MalformedStores ==
    { <<Row(1, NoParent, 9, 11, 40, FALSE, 0),
        [Row(2, NoParent, 10, 10, 0, FALSE, 0) EXCEPT !.start_date = None]>>,
      <<Row(1, NoParent, 9, 11, 40, FALSE, 0),
        [Row(2, NoParent, 10, 10, 0, FALSE, 0)
            EXCEPT !.end_date = <<2024, 13, 1>>]>> }

InitStore ==
    \E store \in ChainStores \cup MalformedStores :
        InitOn(store, {Dep(1, 2, "FS")})

\* the tasks the tree shows, on which its context menu acts
TreeTasks == Range(_flatten_tasks(current_tasks, RootTasks(current_tasks)))

Edit ==
    \E task_id \in TreeTasks, d \in DialogInputs :
        EditTask(task_id, d[1], d[2], d[3], d[4])

Delete == \E task_id \in TreeTasks : DeleteTask(task_id)

\* a drag of a drawn bar was committed: the chart emitted the ISO dates of a
\* move to 2024-01-12..2024-01-14
DateCommit ==
    \E task_id \in DOMAIN task_bars :
        on_task_date_changed(task_id, DateToIso(12), DateToIso(14))

\* a progress drag of a drawn bar was committed at 55 %
ProgressCommit ==
    \E task_id \in DOMAIN task_bars : on_task_progress_changed(task_id, 55)

NextStore ==
    NewTask \/ Edit \/ Delete \/ DateCommit \/ ProgressCommit \/ RefreshView

SpecStore == InitStore /\ [][NextStore]_vars

(***************************************************************************)
(* Properties                                                               *)
(***************************************************************************)
\* the change signals (date or progress) a finished gesture emitted
ChangeSignals(g) ==
    SelectSeq(g.emitted, LAMBDA e : e.sig # "task_clicked")

DateSignals(g) ==
    SelectSeq(g.emitted, LAMBDA e : e.sig = "task_date_changed")

ProgressSignals(g) ==
    SelectSeq(g.emitted, LAMBDA e : e.sig = "task_progress_changed")

\* a gesture has been released and its record is still there
Released == gesture.phase = "up"

\* C1: every task_date_changed emitted by a gesture that started in Move mode
\* carries new_end - new_start equal to the end - start of the task at
\* pointer-down.
C1_MoveKeepsDuration ==
    (Released /\ gesture.mode = "move") =>
        \A i \in 1..Len(DateSignals(gesture)) :
            LET e == DateSignals(gesture)[i]
            IN  DateFromIso(e.end_date) - DateFromIso(e.start_date)
                = gesture.orig_dates[2] - gesture.orig_dates[1]

\* C2 witness: a resize drag in which a pointer-move that would have made
\* the bar narrower than one day was refused (the rectangle and the anchor
\* stayed, the pointer went on).
C2_Witness ==
    /\ pressed
    /\ drag_mode \in {"resize_left", "resize_right"}
    /\ drag_start_pos # <<gesture.last_x>>
    /\ task_bars[gesture.id].w = day_width

\* C2: while a bar is resized its width is never less than one day_width, and
\* every task_date_changed of a resize gesture has new_end >= new_start.
C2_ResizeMinimum ==
    /\ (pressed /\ drag_mode \in {"resize_left", "resize_right"}) =>
           task_bars[dragging_item[2]].w >= day_width
    /\ (Released /\ gesture.mode \in {"resize_left", "resize_right"}) =>
           \A i \in 1..Len(DateSignals(gesture)) :
               LET e == DateSignals(gesture)[i]
               IN  DateFromIso(e.end_date) >= DateFromIso(e.start_date)

\* C3 witness: a progress drag released left of the bar that emitted 0.
C3_Witness ==
    /\ Released
    /\ gesture.mode = "progress"
    /\ gesture.last_x < gesture.bar1.x
    /\ ChangeSignals(gesture) = <<task_progress_changed(gesture.id, 0)>>

\* C3: every task_progress_changed carries a value in 0..100; a progress drag
\* (the pointer went more than the jitter threshold away from the press)
\* released at or left of the bar's left edge commits 0, and one released at
\* or right of the bar's right edge commits 100 (no signal when the progress
\* was 100 already).
C3_ProgressRange ==
    /\ \A i \in 1..Len(ProgressSignals(gesture)) :
           /\ ProgressSignals(gesture)[i].progress >= 0
           /\ ProgressSignals(gesture)[i].progress <= 100
    /\ (Released /\ gesture.mode = "progress" /\ gesture.max_dev > JitterPx) =>
           /\ gesture.last_x <= gesture.bar1.x =>
                  ChangeSignals(gesture)
                      = <<task_progress_changed(gesture.id, 0)>>
           /\ gesture.last_x >= gesture.bar1.x + gesture.bar1.w =>
                  ChangeSignals(gesture)
                      = IF gesture.orig_progress = <<100>> THEN <<>>
                        ELSE <<task_progress_changed(gesture.id, 100)>>

\* C4: a press on a task bar, pointer-moves that all stay within 3 pixels of
\* the press position, and a release emit task_clicked for the task and
\* nothing else.
C4_JitterEmitsOnlyClick ==
    (Released /\ gesture.id # 0 /\ gesture.max_dev <= JitterPx) =>
        gesture.emitted = <<task_clicked(gesture.id)>>

\* C5: a Move drag that leaves the bar exactly one day_width right of where
\* it was at pointer-down commits task_date_changed(id, start + 1, end + 1)
\* as ISO dates.
C5_MoveByOneUnit ==
    (/\ Released
     /\ gesture.mode = "move"
     /\ gesture.bar1.x = gesture.bar0.x + gesture.uw) =>
        ChangeSignals(gesture)
            = <<task_date_changed(gesture.id,
                                  DateToIso(gesture.orig_dates[1] + 1),
                                  DateToIso(gesture.orig_dates[2] + 1))>>

\* the bar draw_chart draws for a task of self.tasks
FreshBar(id) ==
    draw_task_bar(TaskById(current_tasks, id), task_rows(tasks)[id],
                  min_date[1], day_width)

\* C6 witness: in the month view a bar is where it was drawn and maps back
\* to its task's dates.
C6_Witness ==
    /\ day_width = DayWidthOf("month")
    /\ \E id \in DOMAIN task_bars :
           /\ task_bars[id] = FreshBar(id)
           /\ CommitDates(task_bars[id], min_date[1], day_width)
                  = <<TaskById(current_tasks, id).start_date,
                      TaskById(current_tasks, id).end_date>>

\* C6: for every date d in min_date..max_date, the pixel of d maps back to d;
\* a bar that is where it was drawn maps back to its task's start and end.
C6_AxisRoundTrip ==
    min_date # None =>
        /\ \A d \in min_date[1]..max_date[1] :
               min_date[1]
                   + StartDays([NoRect EXCEPT
                                   !.x = DateToX(d, min_date[1], day_width)],
                               day_width)
               = d
        /\ \A id \in DOMAIN task_bars :
               task_bars[id] = FreshBar(id) =>
                   CommitDates(task_bars[id], min_date[1], day_width)
                       = <<TaskById(current_tasks, id).start_date,
                           TaskById(current_tasks, id).end_date>>

\* C7: a progress drag commits round(w / W * 100), to nearest, clamped to
\* 0..100, for the progress width w and the bar width W at release.
C7_ProgressRounds ==
    (Released /\ gesture.mode = "progress" /\ gesture.moved) =>
        LET rounded == Max(0, Min(100, PyRound(gesture.width1,
                                               gesture.bar1.w)))
        IN  ChangeSignals(gesture)
                = IF <<rounded>> = gesture.orig_progress THEN <<>>
                  ELSE <<task_progress_changed(gesture.id, rounded)>>

\* the value the final geometry of a released gesture stands for differs
\* from the value recorded at pointer-down
FinalValueDiffers(g) ==
    IF g.mode = "progress"
    THEN <<CommitProgress([w100 |-> g.width1], g.bar1)>> # g.orig_progress
    ELSE CommitDates(g.bar1, g.mind, g.uw) # g.orig_dates

\* C8: on release of a drag whose pointer went beyond the jitter threshold, a
\* change signal is emitted if and only if the value of the final geometry
\* differs from the value recorded at pointer-down.
C8_CommitIffChanged ==
    (Released /\ gesture.id # 0 /\ gesture.max_dev > JitterPx) =>
        ((ChangeSignals(gesture) # <<>>) <=> FinalValueDiffers(gesture))

\* twice the y of the centre of a bar: the middle of its top and bottom
CentreY2(bar) == (bar.y2 + (bar.y2 + 2 * bar.h)) \div 2

\* the line of a dependency edge, from the bars as they are: right-centre
\* of the predecessor's bar to left-centre of the successor's
ConnectorOf(d) ==
    [predecessor_id |-> d.predecessor_id,
     successor_id |-> d.successor_id,
     x1 |-> task_bars[d.predecessor_id].x + task_bars[d.predecessor_id].w,
     y1 |-> CentreY2(task_bars[d.predecessor_id]),
     x2 |-> task_bars[d.successor_id].x,
     y2 |-> CentreY2(task_bars[d.successor_id])]

\* the dependency edges whose two ends have a bar
DrawnEdges ==
    {d \in dependencies : /\ d.predecessor_id \in DOMAIN task_bars
                          /\ d.successor_id \in DOMAIN task_bars}

RowOfBar(bar) == ((bar.y2 - 2 * top_margin - 36) * 10) \div (row_height * 27)

\* C10: every task of the project has a bar, and the bars' rows are
\* 0..N-1 in the order of the depth-first walk of the task tree.
C10_RowAssignment ==
    LET walk == _flatten_tasks(current_tasks, RootTasks(current_tasks))
    IN  /\ Range(walk) = DOMAIN db_tasks
        /\ DOMAIN task_bars = Range(walk)
        /\ \A i \in 1..Len(walk) : RowOfBar(task_bars[walk[i]]) = i - 1

\* C11: after a load that did not fail, every loaded task occurs exactly
\* once in the walk of the hierarchy from the root set (a task whose parent
\* is not loaded counting as a root).
C11_RootSet ==
    exception = None =>
        LET walk == _flatten_tasks(current_tasks, RootTasks(current_tasks))
        IN  \A id \in IdsOf(current_tasks) :
                Cardinality({i \in 1..Len(walk) : walk[i] = id}) = 1

\* the tasks of S and their descendants in the store, by parent_id
RECURSIVE WithDescendants(_, _)
WithDescendants(db, S) ==
    LET kids == {i \in DOMAIN db : db[i].parent_id \in S} \ S
    IN  IF kids = {} THEN S ELSE WithDescendants(db, S \cup kids)

\* C20: a confirmed deletion of a task removes the task and all of its
\* descendants from the store, and none of them is in the task set loaded by
\* the refresh that follows.
C20_DeleteRemovesDescendants ==
    [][\A task_id \in DOMAIN db_tasks :
          DeleteTask(task_id) =>
              \A d \in WithDescendants(db_tasks, {task_id}) :
                  /\ d \notin DOMAIN db_tasks'
                  /\ d \notin IdsOf(current_tasks')]_vars

\* C12: in a project loaded from a store whose tasks have start_date <=
\* end_date, every stored task has start_date <= end_date after any sequence
\* of creations, dialog edits, deletions and reloads.
C12_StartBeforeEnd ==
    exception = None =>
        \A i \in DOMAIN db_tasks :
            DateFromIso(db_tasks[i].start_date)
                <= DateFromIso(db_tasks[i].end_date)

\* C13: loading never ends in an error; a task whose start or end date is
\* missing or malformed has no bar, and every other root task has its bar.
C13_FailSoft ==
    /\ exception = None
    /\ \A i \in DOMAIN db_tasks :
           IF RowRaises(db_tasks[i])
           THEN i \notin DOMAIN task_bars
           ELSE db_tasks[i].parent_id = NoParent => i \in DOMAIN task_bars

\* C14: every loaded task has duration_days = end_date - start_date + 1, and
\* every loaded task whose milestone flag is set has duration_days = 1.
C14_Duration ==
    \A i \in 1..Len(current_tasks) :
        LET task == current_tasks[i]
        IN  /\ duration_days(task) = (task.end_date - task.start_date) + 1
            /\ task.is_milestone => duration_days(task) = 1

\* C15: a loaded task with both baseline dates has end_variance_days =
\* end_date - baseline_end_date; a loaded task lacking a baseline date (one
\* or both) has start_variance_days = 0 and end_variance_days = 0.
C15_EndVariance ==
    \A i \in 1..Len(current_tasks) :
        LET task == current_tasks[i]
        IN  IF task.baseline_start_date # None /\ task.baseline_end_date # None
            THEN end_variance_days(task)
                     = task.end_date - task.baseline_end_date[1]
            ELSE start_variance_days(task) = 0 /\ end_variance_days(task) = 0

\* an edited task ends before its baseline end, while another task has only
\* its baseline start, which differs from its start
C15_Witness ==
    /\ n_ops > 0
    /\ \E i \in 1..Len(current_tasks) :
           /\ has_baseline(current_tasks[i])
           /\ end_variance_days(current_tasks[i]) < 0
    /\ \E i \in 1..Len(current_tasks) :
           LET task == current_tasks[i]
           IN  /\ task.baseline_start_date # None
               /\ task.baseline_end_date = None
               /\ task.start_date # task.baseline_start_date[1]

\* keyword arguments of update_task: those of a date commit, of a progress
\* commit, baseline columns alone, a baseline column beside an allowed
\* field, the id, and none
KwargsSamples ==
    { [start_date |-> DateToIso(7), end_date |-> DateToIso(8)],
      [progress |-> 55],
      [baseline_start_date |-> DateToIso(1), baseline_end_date |-> DateToIso(2)],
      [baseline_end_date |-> DateToIso(2), progress |-> 10],
      [id |-> 9],
      <<>> }

\* update_task on the current store writes only allowed fields it was
\* passed, and nothing when it was passed none
UpdateWritesAllowedOnly ==
    \A task_id \in DOMAIN db_tasks, kwargs \in KwargsSamples :
        LET after == update_task(db_tasks, task_id, kwargs)
            written == {f \in DOMAIN db_tasks[task_id] :
                           after[task_id][f] # db_tasks[task_id][f]}
        IN  /\ DOMAIN after = DOMAIN db_tasks
            /\ \A i \in DOMAIN db_tasks \ {task_id} : after[i] = db_tasks[i]
            /\ written \subseteq DOMAIN kwargs \cap allowed_fields
            /\ \A f \in DOMAIN kwargs \cap allowed_fields \cap
                         DOMAIN db_tasks[task_id] :
                   after[task_id][f] = kwargs[f]
            /\ DOMAIN kwargs \cap allowed_fields = {} => after = db_tasks

\* a step leaves the baseline columns of every task it keeps as they were
BaselinesKept ==
    \A i \in DOMAIN db_tasks \cap DOMAIN db_tasks' :
        /\ db_tasks'[i].baseline_start_date = db_tasks[i].baseline_start_date
        /\ db_tasks'[i].baseline_end_date = db_tasks[i].baseline_end_date

OtherRectsKept ==
    /\ DOMAIN task_bars' = DOMAIN task_bars
    /\ DOMAIN progress_bars' = DOMAIN progress_bars
    /\ \A id \in DOMAIN task_bars :
           dragging_item # <<"bar", id>> => task_bars'[id] = task_bars[id]
    /\ \A id \in DOMAIN progress_bars :
           dragging_item # <<"progress", id>> =>
               progress_bars'[id] = progress_bars[id]
    /\ arrows' = arrows

\* C16: a pointer-move changes no task of the store or of the task list,
\* emits no signal and changes the rectangle of no item other than the
\* dragged one; without a pressed button it changes no rectangle and no drag
\* state.
C16_MovesAreVisualOnly ==
    [][Move =>
          /\ db_tasks' = db_tasks
          /\ db_deps' = db_deps
          /\ current_tasks' = current_tasks
          /\ tasks' = tasks
          /\ dependencies' = dependencies
          /\ signals' = <<>>
          /\ OtherRectsKept
          /\ ~pressed =>
                 /\ task_bars' = task_bars
                 /\ progress_bars' = progress_bars
                 /\ UNCHANGED dragVars]_vars

\* in the middle of a drag the dragged bar is away from where it was pressed,
\* while the dates of its task in the store and in the task list are those
\* recorded at pointer-down
C16_Witness ==
    /\ pressed
    /\ n_moves > 0
    /\ dragging_item # None
    /\ dragging_item[1] = "bar"
    /\ task_bars[dragging_item[2]] # gesture.bar0
    /\ LET task == TaskById(current_tasks, dragging_item[2])
       IN  /\ <<task.start_date, task.end_date>> = gesture.orig_dates
           /\ DateFromIso(db_tasks[task.id].start_date) = task.start_date

\* the drag mode the precedence of the hit test gives a press at x on the bar
\* of task t: the edge margins first, then the progress item, then the move
HitTestMode(x, t) ==
    LET local_x == x - task_bars[t].x
    IN  IF local_x < resize_edge_margin THEN "resize_left"
        ELSE IF local_x > task_bars[t].w - resize_edge_margin
        THEN "resize_right"
        ELSE IF itemAt(x, t, task_bars, progress_bars) = <<"progress", t>>
        THEN "progress"
        ELSE "move"

\* C17: a left press over the bar of a task sets the drag mode to resize_left
\* within the edge margin of the bar's left border, to resize_right within
\* the margin of its right border, otherwise to progress inside the progress
\* item, otherwise to move.
C17_HitTestPrecedence ==
    [][\A p \in PointerTargets :
          (/\ p[2] \in DOMAIN task_bars
           /\ task_bars[p[2]].x <= p[1]
           /\ p[1] < task_bars[p[2]].x + task_bars[p[2]].w
           /\ MousePress(p[1], p[2]))
          => drag_mode' = HitTestMode(p[1], p[2])]_vars

\* fineness of a granularity: day over week over month
Fineness(mode) == IF mode = "day" THEN 3 ELSE IF mode = "week" THEN 2 ELSE 1

\* C18: set_view_mode with 'day', 'week' or 'month' sets view_mode to it and
\* the per-day width to a value that is larger for the finer granularity, and
\* leaves min_date, max_date, the task list, the dependency list, the store
\* and the drag state unchanged (the scene is redrawn at the new width);
\* set_view_mode with another value changes nothing.
C18_ViewModeFrame ==
    [][\A mode \in ViewModes \cup {"year"} :
          SetViewMode(mode) =>
              /\ UNCHANGED <<db_tasks, db_deps, current_tasks, tasks,
                             dependencies, min_date, max_date, dragVars,
                             cursor, exception>>
              /\ IF mode \in ViewModes
                 THEN /\ view_mode' = mode
                      /\ Fineness(mode) > Fineness(view_mode)
                             => day_width' > day_width
                      /\ Fineness(mode) = Fineness(view_mode)
                             => day_width' = day_width
                      /\ Fineness(mode) < Fineness(view_mode)
                             => day_width' < day_width
                 ELSE UNCHANGED <<view_mode, day_width, task_bars,
                                  progress_bars, arrows>>]_vars

\* the chart was switched to the week view: every bar is drawn at the week
\* view's width per day, over the date range the day view had
C18_Witness ==
    /\ view_mode = "week"
    /\ day_width < 40
    /\ day_width > 10
    /\ task_bars # <<>>
    /\ \A t \in DOMAIN task_bars :
           task_bars[t].w = day_width * duration_days(TaskById(current_tasks, t))

\* C21: a refresh_view that follows a reorder of the tree by drag-and-drop
\* shows the top-level items of the tree, and the rows of the chart, in the
\* reordered sequence.
C21_ReorderPersisted ==
    [][(signals = <<task_order_changed>> /\ RefreshView) =>
          (tree_items' = tree_items /\ tasks' = tree_items)]_vars

\* C22: the bar of every drawn task in row r has x = left_margin +
\* (start_date - min_date) * day_width, width = duration_days * day_width,
\* and, with inset = (row_height - height) / 2, y = top_margin +
\* r * row_height + inset (y is kept doubled in y2).
C22_BarRectangle ==
    exception = None =>
        \A id \in DOMAIN task_bars :
            LET bar == task_bars[id]
                task == TaskById(current_tasks, id)
                r == task_rows(tasks)[id]
                inset2 == row_height - bar.h
            IN  /\ bar.x = left_margin
                             + (task.start_date - min_date[1]) * day_width
                /\ bar.w = duration_days(task) * day_width
                /\ bar.y2 = 2 * top_margin + 2 * r * row_height + inset2

\* C23: the colour of every drawn bar is the task's custom colour when one
\* is set; otherwise the milestone colour when the task is a milestone;
\* otherwise the tier of its progress: one colour for 0, one for 1..99, one
\* for 100.
C23_ColourResolution ==
    \A id \in DOMAIN task_bars :
        LET task == TaskById(current_tasks, id)
            colour == bar_colors[id]
        IN  /\ task.color # None => colour = QColor(task.color[1])
            /\ (task.color = None /\ task.is_milestone) =>
                   colour = <<244, 67, 54>>
            /\ (task.color = None /\ ~task.is_milestone) =>
                   /\ colour # <<244, 67, 54>>
                   /\ task.progress = 0 => colour = <<158, 158, 158>>
                   /\ task.progress \in 1..99 => colour = <<33, 150, 243>>
                   /\ task.progress = 100 => colour = <<76, 175, 80>>

\* a milestone with a custom colour is drawn in its custom colour beside a
\* task without one that is drawn in the colour of the tier 1..99
C23_Witness ==
    /\ view_mode = "week"
    /\ \E id \in DOMAIN task_bars :
           LET task == TaskById(current_tasks, id)
           IN  /\ task.color = <<"#ff9800">>
               /\ task.is_milestone
               /\ bar_colors[id] = <<255, 152, 0>>
    /\ \E id \in DOMAIN task_bars :
           LET task == TaskById(current_tasks, id)
           IN  /\ task.color = None
               /\ ~task.is_milestone
               /\ task.progress = 99
               /\ bar_colors[id] = <<33, 150, 243>>

\* the controller is Idle: nothing dragged, no anchor, no mode, no recorded
\* dates or progress, has_moved false
Idle ==
    /\ dragging_item = None
    /\ drag_start_pos = None
    /\ drag_mode = "none"
    /\ original_task_dates = None
    /\ original_progress = None
    /\ ~has_moved

\* C24: a dragged item always has exactly one of the four drag modes; a left
\* press received while an item is dragged leaves the dragged item, the mode
\* and the recorded original dates and progress as they were; every
\* left-button release leaves the controller Idle.
C24_SingleDrag ==
    /\ [](dragging_item # None =>
             drag_mode \in {"move", "resize_left", "resize_right", "progress"})
    /\ [][(PressHeld /\ dragging_item # None) =>
              UNCHANGED <<dragging_item, drag_mode, original_task_dates,
                          original_progress>>]_vars
    /\ [][Release => Idle']_vars

\* C25: during a Move drag the bar is as far from its position at
\* pointer-down as the pointer is from the press position, and its y, width
\* and height are those at pointer-down.
C25_BarFollowsPointer ==
    (pressed /\ gesture.phase = "down" /\ gesture.mode = "move") =>
        LET bar == task_bars[gesture.id]
        IN  /\ bar.x - gesture.bar0.x = gesture.last_x - gesture.press_x
            /\ bar.y2 = gesture.bar0.y2
            /\ bar.w = gesture.bar0.w
            /\ bar.h = gesture.bar0.h

\* the third pointer-move of a Move drag has been handled and the pointer,
\* having turned back once, is away from the press position
C25_Witness ==
    /\ pressed
    /\ gesture.mode = "move"
    /\ n_moves = 3
    /\ gesture.max_dev > Abs(gesture.last_x - gesture.press_x)
    /\ gesture.last_x # gesture.press_x
    /\ task_bars[gesture.id].x # gesture.bar0.x

\* at pointer-down the bar of the gesture was where draw_chart draws the
\* task's dates
PressedOnDrawnBar(g) ==
    /\ g.bar0.x = DateToX(g.orig_dates[1], g.mind, g.uw)
    /\ g.bar0.w = (g.orig_dates[2] - g.orig_dates[1] + 1) * g.uw

\* C26: a task_date_changed emitted by a gesture that started in resize_left
\* mode on a bar as drawn carries the end date the task had at pointer-down,
\* and one emitted by a resize_right gesture carries the start date it had.
C26_ResizeKeepsOtherEnd ==
    (Released /\ gesture.id # 0 /\ PressedOnDrawnBar(gesture)) =>
        \A i \in 1..Len(DateSignals(gesture)) :
            LET e == DateSignals(gesture)[i]
            IN  /\ gesture.mode = "resize_left" =>
                       e.end_date = DateToIso(gesture.orig_dates[2])
                /\ gesture.mode = "resize_right" =>
                       e.start_date = DateToIso(gesture.orig_dates[1])

\* what mouseMoveEvent and mouseReleaseEvent emit for the gesture g when its
\* motion, from the press position to the final pointer position, is
\* delivered as one pointer-move (move and resize modes)
OneMoveSignals(g) ==
    LET delta_x == g.last_x - g.press_x
        res == IF g.mode = "move"
               THEN MoveDrag(g.bar0, delta_x, g.press_x, g.last_x)
               ELSE IF g.mode = "resize_left"
               THEN ResizeLeftDrag(g.bar0, delta_x, g.press_x, g.last_x, g.uw)
               ELSE ResizeRightDrag(g.bar0, delta_x, g.press_x, g.last_x, g.uw)
        new == CommitDates(res.rect, g.mind, g.uw)
    IN  IF ExceedsJitter(delta_x) /\ new # g.orig_dates
        THEN <<task_date_changed(g.id, DateToIso(new[1]), DateToIso(new[2]))>>
        ELSE <<>>

\* C27: the change events a move or resize gesture emits on release are
\* those the same gesture emits when its motion from the press position to
\* the final pointer position is delivered as one pointer-move.
C27_PathIndependence ==
    (/\ Released
     /\ gesture.id # 0
     /\ gesture.mode \in {"move", "resize_left", "resize_right"}) =>
        ChangeSignals(gesture) = OneMoveSignals(gesture)

\* C28: every gridline of the header, in the day, week and month view, is
\* at x = left_margin + (d - min_date) * day_width for the date d it is
\* drawn for.
C28_HeaderOnAxis ==
    \A line \in header_lines :
        line.x = left_margin + (line.date - min_date[1]) * day_width

\* C29: every bar lies inside the scene rectangle (0, 0, scene_width,
\* scene_height) that draw_chart sets, for any number of rows and any date
\* range.
C29_BarsInsideScene ==
    (exception = None /\ scene_rect # None) =>
        \A id \in DOMAIN task_bars :
            LET bar == task_bars[id]
            IN  /\ 0 <= bar.x
                /\ bar.x + bar.w <= scene_rect[1].w
                /\ 0 <= bar.y2
                /\ bar.y2 + 2 * bar.h <= 2 * scene_rect[1].h

ChangeKinds == {"task_date_changed", "task_progress_changed"}

====
